---- MODULE Spec2Model ----
(***************************************************************************)
(* pdf-agent-summarizer: the text chunker (chunk_text) and the batch       *)
(* map-reduce pipeline (process_pdfs / summarize_document) of              *)
(* agent_pdf_summarizer.py.  summarizer.py holds a verbatim copy of        *)
(* chunk_text and of the pipeline body (summarize_pdf_bytes).              *)
(*                                                                         *)
(* A text is a sequence of one-character strings.  A generation request    *)
(* is recorded in `calls` by the function called, its argument and what    *)
(* it returned; the service's answer is a nondeterministic choice.         *)
(***************************************************************************)
EXTENDS Integers, Sequences, FiniteSets, TLC

VARIABLES
    pc,                   \* position of the program
    api_key,              \* OPENAI_API_KEY is set
    force,                \* --force
    max_chars_per_chunk,  \* --max-chars-per-chunk
    input_names,          \* stems of the *.pdf files of the input folder
    existing,             \* the output folder as the batch found it
    outputs,              \* the output folder: stem -> file content
    pdf_files,            \* sorted(input_folder.glob("*.pdf"))
    idx,                  \* enumerate(pdf_files, start=1)
    log,                  \* what process_pdfs reported, one entry per file
    text,                 \* chunk_text / summarize_document: text
    chunk_size,           \* chunk_text: chunk_size
    overlap,              \* chunk_text: overlap
    start,                \* chunk_text: start
    end,                  \* chunk_text: end
    chunks,               \* chunk_text: chunks
    ranges,               \* the slice text[start:end] of each chunk, as <<lo, hi>>
    chunk_summaries,      \* summarize_document: chunk_summaries
    summary,              \* what summarize_document returned
    calls,                \* generation requests of the current summarize_document
    exc                   \* the exception summarize_document is raising

vars == <<pc, api_key, force, max_chars_per_chunk, input_names, existing,
          outputs, pdf_files, idx, log, text, chunk_size, overlap, start,
          end, chunks, ranges, chunk_summaries, summary, calls, exc>>

chunkVars == <<text, chunk_size, overlap, start, end, chunks, ranges>>
batchVars == <<api_key, force, max_chars_per_chunk, input_names, existing,
               outputs, pdf_files, idx, log>>

-----------------------------------------------------------------------------
(* Bounds of the model *)

MaxLen == 6          \* chunk_text alone: longest text
MaxChunkSize == 4    \* chunk_text alone: largest chunk_size
MaxOverlap == 4      \* chunk_text alone: largest overlap
MaxChunks == 8       \* cap on a chunking loop that makes no progress
MaxFiles == 2        \* pdf files in the input folder
MaxPages == 2        \* pages of a pdf

(* Program constants *)

OVERLAP == 500              \* summarize_document: chunk_text(..., overlap=500)

-----------------------------------------------------------------------------
(* Strings *)

IsSpace(c) == c \in {" ", "\n"}

MinOf(S) == CHOOSE x \in S : \A y \in S : x <= y

\* str.strip(): drops the spaces before the first and after the last
\* character that is no space (lead and trail count them)
Strip(s) ==
    IF \A i \in 1..Len(s) : IsSpace(s[i]) THEN <<>>
    ELSE LET lead == CHOOSE k \in 0..(Len(s) - 1) :
                        ~IsSpace(s[k + 1]) /\ \A j \in 1..k : IsSpace(s[j])
             trail == CHOOSE k \in 0..(Len(s) - 1) :
                         /\ ~IsSpace(s[Len(s) - k])
                         /\ \A j \in 0..(k - 1) : IsSpace(s[Len(s) - j])
         IN  SubSeq(s, lead + 1, Len(s) - trail)

\* sep.join(parts)
RECURSIVE Join(_, _)
Join(parts, sep) ==
    IF parts = <<>> THEN <<>>
    ELSE IF Len(parts) = 1 THEN parts[1]
    ELSE parts[1] \o sep \o Join(Tail(parts), sep)

\* a slice index of a sequence of length n, as Python clamps it
SliceIndex(k, n) ==
    IF k < 0 THEN (IF k + n < 0 THEN 0 ELSE k + n)
    ELSE (IF k > n THEN n ELSE k)

\* the character range <<lo, hi>> of s[i:j]: positions lo .. hi-1 (0-based)
SliceRange(s, i, j) ==
    LET lo == SliceIndex(i, Len(s))
        hi == SliceIndex(j, Len(s))
    IN  <<lo, IF hi < lo THEN lo ELSE hi>>

\* s[i:j]
Slice(s, i, j) ==
    LET r == SliceRange(s, i, j) IN SubSeq(s, r[1] + 1, r[2])

Filled(n, c) == [i \in 1..n |-> c]

Last(s) == s[Len(s)]

-----------------------------------------------------------------------------
(* chunk_text *)

\* if len(text) <= chunk_size: return [text]
FitsOneChunkStrict(n, size) == n < size
FitsOneChunk(n, size) == n <= size

\* while start < len(text)
MoreChunksByEnd(s, e, n) == e < n
MoreChunks(s, e, n) == s < n

\* start = end - overlap
NextStart(e, ov) == e - ov

\* end = start + chunk_size
NextEnd(s, size) == s + size

ChunkEntry ==
    /\ pc = "chunk_entry"
    /\ IF FitsOneChunk(Len(text), chunk_size)
       THEN /\ chunks' = <<text>>
            /\ ranges' = <<SliceRange(text, 0, Len(text))>>
            /\ pc' = "chunked"
            /\ UNCHANGED <<start, end>>
       ELSE /\ chunks' = <<>>
            /\ ranges' = <<>>
            /\ start' = 0
            /\ end' = chunk_size
            /\ pc' = "chunk_loop"
    /\ UNCHANGED <<text, chunk_size, overlap, chunk_summaries, summary, calls, exc>>
    /\ UNCHANGED batchVars

\* One iteration of the while loop.  The code has no bound on chunks; a loop
\* that makes no progress is followed for MaxChunks iterations.
ChunkLoop ==
    /\ pc = "chunk_loop"
    /\ MoreChunks(start, end, Len(text))
    /\ Len(chunks) < MaxChunks
    /\ chunks' = Append(chunks, Slice(text, start, end))
    /\ ranges' = Append(ranges, SliceRange(text, start, end))
    /\ start' = NextStart(end, overlap)
    /\ end' = NextEnd(start', chunk_size)
    /\ UNCHANGED <<pc, text, chunk_size, overlap, chunk_summaries, summary, calls, exc>>
    /\ UNCHANGED batchVars

ChunkReturn ==
    /\ pc = "chunk_loop"
    /\ ~MoreChunks(start, end, Len(text))
    /\ pc' = "chunked"
    /\ UNCHANGED chunkVars
    /\ UNCHANGED <<chunk_summaries, summary, calls, exc>>
    /\ UNCHANGED batchVars

(* chunk_text on its own, on every text, chunk_size and overlap of the bounds *)

ChunkTexts == UNION {[1..n -> {"a", "b"}] : n \in 0..MaxLen}

InitChunk ==
    /\ pc = "chunk_entry"
    /\ text \in ChunkTexts
    /\ chunk_size \in 0..MaxChunkSize
    /\ overlap \in 0..MaxOverlap
    /\ start = 0
    /\ end = 0
    /\ chunks = <<>>
    /\ ranges = <<>>
    /\ chunk_summaries = <<>>
    /\ summary = <<>>
    /\ calls = <<>>
    /\ exc = "none"
    /\ api_key = TRUE
    /\ force = FALSE
    /\ max_chars_per_chunk = chunk_size
    /\ input_names = {}
    /\ existing = <<>>
    /\ outputs = <<>>
    /\ pdf_files = <<>>
    /\ idx = 1
    /\ log = <<>>

NextChunk == ChunkEntry \/ ChunkLoop \/ ChunkReturn

SpecChunk == InitChunk /\ [][NextChunk]_vars

-----------------------------------------------------------------------------
(* read_pdf_text *)

\* Page texts (page.extract_text() or ""): no text, blank, or n characters.
PageLens == {1, 4 * OVERLAP}
PageTexts == {<<>>, <<" ">>} \cup {Filled(n, "a") : n \in PageLens}
Pdfs == UNION {[1..n -> PageTexts] : n \in 0..MaxPages}

HasText(page) == Strip(page) # <<>>

\* "\n\n".join of the pages that have text; "" when the reader raised
ReadPdfText(pages, readable) ==
    IF readable THEN Join(SelectSeq(pages, HasText), <<"\n", "\n">>) ELSE <<>>

\* what read_pdf_text can return, over every pdf of the bounds
ExtractedTexts == {ReadPdfText(pages, readable) : pages \in Pdfs, readable \in BOOLEAN}

-----------------------------------------------------------------------------
(* The generation service: an answer, or an exception *)

Answers == {<<"s">>, <<" ", "t", "\n">>}

Call(fn, chunk, summaries, ok, ret) ==
    [fn |-> fn, chunk |-> chunk, chunk_summaries |-> summaries,
     ok |-> ok, ret |-> ret]

-----------------------------------------------------------------------------
(* process_pdfs and summarize_document *)

\* --max-chars-per-chunk: below, at and above the pipeline's overlap
ChunkSizeChoices == {1, OVERLAP, 4 * OVERLAP}

OldSummary == <<"old">>

RECURSIVE Sorted(_)
Sorted(S) ==
    IF S = {} THEN <<>> ELSE <<MinOf(S)>> \o Sorted(S \ {MinOf(S)})

\* f.write(f"# Summary for {pdf_path.name}\n\n"); f.write(summary)
FileText(name, body) == <<"# Summary for ", ToString(name), "\n", "\n">> \o body

Written(files, name, content) ==
    [n \in (DOMAIN files) \cup {name} |-> IF n = name THEN content ELSE files[n]]

Entry(file, status, error) == [file |-> file, status |-> status, error |-> error]

\* the locals of summarize_document, before it is called and after it ended
NoFrame ==
    /\ text = <<>>
    /\ chunk_size = 0
    /\ overlap = 0
    /\ start = 0
    /\ end = 0
    /\ chunks = <<>>
    /\ ranges = <<>>
    /\ chunk_summaries = <<>>
    /\ summary = <<>>
    /\ calls = <<>>
    /\ exc = "none"

Init ==
    /\ pc = "start"
    /\ api_key \in BOOLEAN
    /\ force \in BOOLEAN
    /\ max_chars_per_chunk \in ChunkSizeChoices
    /\ input_names \in {1..n : n \in 0..MaxFiles}
    /\ existing \in UNION {[S -> {OldSummary}] : S \in SUBSET input_names}
    /\ outputs = existing
    /\ pdf_files = <<>>
    /\ idx = 1
    /\ log = <<>>
    /\ NoFrame

frameVars == <<text, chunk_size, overlap, start, end, chunks, ranges,
               chunk_summaries, summary, calls, exc>>

\* summarize_document ended: its locals are gone
DropFrame ==
    /\ text' = <<>>
    /\ chunk_size' = 0
    /\ overlap' = 0
    /\ start' = 0
    /\ end' = 0
    /\ chunks' = <<>>
    /\ ranges' = <<>>
    /\ chunk_summaries' = <<>>
    /\ summary' = <<>>
    /\ calls' = <<>>
    /\ exc' = "none"

configVars == <<api_key, force, max_chars_per_chunk, input_names, existing,
                pdf_files>>

\* process_pdfs up to its loop: list the folder, return if it is empty, exit
\* if the key is missing
ListPdfs ==
    /\ pc = "start"
    /\ pdf_files' = Sorted(input_names)
    /\ pc' = IF pdf_files' = <<>> THEN "done"
             ELSE IF ~api_key THEN "exit"
             ELSE "loop"
    /\ UNCHANGED <<api_key, force, max_chars_per_chunk, input_names, existing,
                   outputs, idx, log>>
    /\ UNCHANGED frameVars

\* if output_path.exists() and not force
SkipsExisting(name) == name \in DOMAIN outputs /\ ~force

\* the head of the for loop: the next file is skipped or summarized
NextFile ==
    /\ pc = "loop"
    /\ IF idx > Len(pdf_files)
       THEN /\ pc' = "done"
            /\ UNCHANGED <<idx, log>>
       ELSE IF SkipsExisting(pdf_files[idx])
       THEN /\ log' = Append(log, Entry(pdf_files[idx], "skipped", "none"))
            /\ idx' = idx + 1
            /\ UNCHANGED pc
       ELSE /\ pc' = "read"
            /\ UNCHANGED <<idx, log>>
    /\ UNCHANGED <<outputs>>
    /\ UNCHANGED configVars
    /\ UNCHANGED frameVars

\* raise: the exception leaves summarize_document
Raise(error) ==
    /\ exc' = error
    /\ pc' = "raised"

\* if not text.strip()
NoTextNever(t) == FALSE
NoText(t) == Strip(t) = <<>>

\* summarize_document: read the text, raise if there is none, else call
\* chunk_text(text, chunk_size=max_chars_per_chunk, overlap=500)
ReadPdf ==
    /\ pc = "read"
    /\ text' \in ExtractedTexts
    /\ IF NoText(text')
       THEN /\ Raise("ValueError")
            /\ UNCHANGED <<chunk_size, overlap>>
       ELSE /\ pc' = "chunk_entry"
            /\ chunk_size' = max_chars_per_chunk
            /\ overlap' = OVERLAP
            /\ UNCHANGED exc
    /\ UNCHANGED <<start, end, chunks, ranges, chunk_summaries, summary, calls>>
    /\ UNCHANGED batchVars

\* if len(chunks) == 1
IsSingleChunkNever(cs) == FALSE
IsSingleChunk(cs) == Len(cs) = 1

\* the single-chunk path: one combine_chunk_summaries call on [chunks[0]]
SingleCall ==
    /\ pc = "chunked"
    /\ IsSingleChunk(chunks)
    /\ \/ \E a \in Answers :
             /\ calls' = Append(calls, Call("combine", <<>>, <<chunks[1]>>, TRUE, Strip(a)))
             /\ summary' = Strip(a)
             /\ pc' = "write"
             /\ UNCHANGED exc
       \/ /\ calls' = Append(calls, Call("combine", <<>>, <<chunks[1]>>, FALSE, <<>>))
          /\ UNCHANGED summary
          /\ Raise("APIError")
    /\ UNCHANGED <<text, chunk_size, overlap, start, end, chunks, ranges,
                   chunk_summaries>>
    /\ UNCHANGED batchVars

\* chunk_summaries = []
StartMap ==
    /\ pc = "chunked"
    /\ ~IsSingleChunk(chunks)
    /\ chunk_summaries' = <<>>
    /\ pc' = "map"
    /\ UNCHANGED <<text, chunk_size, overlap, start, end, chunks, ranges,
                   summary, calls, exc>>
    /\ UNCHANGED batchVars

\* chunk_summaries.append(summary)
AppendSummaryFront(sums, s) == <<s>> \o sums
AppendSummary(sums, s) == Append(sums, s)

\* what a failed summarize_chunk does to the loop over chunks: the exception
\* leaves summarize_document
ChunkFailureSkipsChunk ==
    /\ chunk_summaries' = Append(chunk_summaries, <<>>)
    /\ UNCHANGED <<pc, exc>>
ChunkFailure ==
    /\ UNCHANGED chunk_summaries
    /\ Raise("APIError")

\* one iteration of the for loop over chunks: summarize_chunk on the next chunk
SummarizeChunk ==
    /\ pc = "map"
    /\ Len(chunk_summaries) < Len(chunks)
    /\ LET chunk == chunks[Len(chunk_summaries) + 1] IN
       \/ \E a \in Answers :
             /\ calls' = Append(calls, Call("summarize", chunk, <<>>, TRUE, Strip(a)))
             /\ chunk_summaries' = AppendSummary(chunk_summaries, Strip(a))
             /\ UNCHANGED <<pc, exc>>
       \/ /\ calls' = Append(calls, Call("summarize", chunk, <<>>, FALSE, <<>>))
          /\ ChunkFailure
    /\ UNCHANGED <<text, chunk_size, overlap, start, end, chunks, ranges, summary>>
    /\ UNCHANGED batchVars

\* after the loop: combine_chunk_summaries on chunk_summaries
CombineAll ==
    /\ pc = "map"
    /\ Len(chunk_summaries) >= Len(chunks)
    /\ \/ \E a \in Answers :
             /\ calls' = Append(calls, Call("combine", <<>>, chunk_summaries, TRUE, Strip(a)))
             /\ summary' = Strip(a)
             /\ pc' = "write"
             /\ UNCHANGED exc
       \/ /\ calls' = Append(calls, Call("combine", <<>>, chunk_summaries, FALSE, <<>>))
          /\ UNCHANGED summary
          /\ Raise("APIError")
    /\ UNCHANGED <<text, chunk_size, overlap, start, end, chunks, ranges,
                   chunk_summaries>>
    /\ UNCHANGED batchVars

\* with open(output_path, "w") ...: the summary is written and reported
WriteSummary ==
    /\ pc = "write"
    /\ outputs' = Written(outputs, pdf_files[idx], FileText(pdf_files[idx], summary))
    /\ log' = Append(log, Entry(pdf_files[idx], "saved", "none"))
    /\ idx' = idx + 1
    /\ pc' = "loop"
    /\ DropFrame
    /\ UNCHANGED configVars

\* where the batch goes after a file failed: on to the next file
AfterFailureStop == "done"
AfterFailure == "loop"

\* except Exception as e: the failure is reported and the loop goes on
Except ==
    /\ pc = "raised"
    /\ log' = Append(log, Entry(pdf_files[idx], "error", exc))
    /\ idx' = idx + 1
    /\ pc' = AfterFailure
    /\ UNCHANGED outputs
    /\ DropFrame
    /\ UNCHANGED configVars

Next ==
    \/ ListPdfs
    \/ NextFile
    \/ ReadPdf
    \/ ChunkEntry
    \/ ChunkLoop
    \/ ChunkReturn
    \/ SingleCall
    \/ StartMap
    \/ SummarizeChunk
    \/ CombineAll
    \/ WriteSummary
    \/ Except

Spec == Init /\ [][Next]_vars

-----------------------------------------------------------------------------
(* Properties of chunk_text, stated on the value it returned *)

ChunkTextReturned == pc = "chunked"

\* len(T) > chunk_size and 0 <= overlap < chunk_size
ValidSplit == Len(text) > chunk_size /\ 0 <= overlap /\ overlap < chunk_size

Lo(k) == ranges[k][1]
Hi(k) == ranges[k][2]

\* positions two chunks share
Shared(j, k) ==
    Cardinality({p \in 0..(Len(text) - 1) :
                    /\ Lo(j) <= p /\ p < Hi(j)
                    /\ Lo(k) <= p /\ p < Hi(k)})

\* C1: with len(T) > chunk_size and 0 <= overlap < chunk_size, the chunks
\* chunk_text returns are character ranges of T that cover every position of
\* T, and each chunk after the first starts at or before the end of the chunk
\* preceding it.
C1_ChunksCoverText ==
    (ChunkTextReturned /\ ValidSplit) =>
        /\ Len(ranges) = Len(chunks)
        /\ \A k \in 1..Len(chunks) : chunks[k] = SubSeq(text, Lo(k) + 1, Hi(k))
        /\ \A p \in 0..(Len(text) - 1) :
              \E k \in 1..Len(chunks) : Lo(k) <= p /\ p < Hi(k)
        /\ \A k \in 2..Len(chunks) : Lo(k) <= Hi(k - 1)

C1_Witness ==
    /\ ChunkTextReturned /\ ValidSplit
    /\ Len(chunks) >= 3
    /\ overlap > 0
    /\ Len(Last(chunks)) < chunk_size

\* C2: with len(T) > chunk_size and 0 <= overlap < chunk_size, every pair of
\* consecutive chunks shares exactly `overlap` positions of T; only the pair
\* whose later chunk is the final chunk, shortened by the end of the text, may
\* differ.
C2_ConsecutiveChunksOverlapExactly ==
    (ChunkTextReturned /\ ValidSplit) =>
        \A k \in 1..(Len(chunks) - 1) :
            \/ Shared(k, k + 1) = overlap
            \/ (k + 1 = Len(chunks) /\ Len(chunks[k + 1]) < chunk_size)

\* C3: with len(T) <= chunk_size, chunk_text returns exactly one chunk and
\* that chunk is T, whatever the overlap.
C3_ShortTextIsOneChunk ==
    (ChunkTextReturned /\ Len(text) <= chunk_size) => chunks = <<text>>

C3_Witness ==
    /\ ChunkTextReturned
    /\ Len(text) = chunk_size
    /\ Len(text) > 0
    /\ overlap >= chunk_size
    /\ chunks = <<text>>

\* C10: with len(T) > chunk_size and 0 <= overlap < chunk_size, every chunk
\* is non-empty and at most chunk_size long, and every chunk after the first
\* holds a character of T beyond the end of the chunk before it.
C10_EveryChunkAddsText ==
    (ChunkTextReturned /\ ValidSplit) =>
        /\ \A k \in 1..Len(chunks) :
              Len(chunks[k]) >= 1 /\ Len(chunks[k]) <= chunk_size
        /\ \A k \in 2..Len(chunks) : Hi(k) > Hi(k - 1)

-----------------------------------------------------------------------------
(* Properties of the pipeline *)

\* the file summarize_document is running on
CurrentFile == pdf_files[idx]

\* summarize_document is past chunk_text
PastChunking == pc \in {"chunked", "map", "write", "raised"}

\* the loop cap of ChunkLoop cuts only loops that make no progress
CapOnlyWithoutProgress ==
    (pc = "chunk_loop" /\ Len(chunks) >= MaxChunks /\ MoreChunks(start, end, Len(text)))
        => overlap >= chunk_size

\* C4: run on a non-empty text with overlap >= chunk_size, the pipeline fails
\* with a ConfigurationError: once chunk_text is entered the run is failing
\* with that error, the chunking loop is not running, and no generation
\* request is issued.
C4_BadOverlapIsRejected ==
    (/\ pc \in {"chunk_loop", "chunked", "map", "write", "raised"}
     /\ text # <<>>
     /\ overlap >= chunk_size)
        => /\ pc = "raised"
           /\ exc = "ConfigurationError"
           /\ chunks = <<>>
           /\ calls = <<>>

\* C5: a document whose text is non-empty and no longer than the chunk size
\* costs exactly one generation request: one Combiner call on the one-element
\* sequence holding the raw text; the Chunk Summarizer is never called, and
\* the Combiner's output is what the pipeline returns.
C5_ShortDocumentIsOneCombinerCall ==
    (PastChunking /\ text # <<>> /\ Len(text) <= max_chars_per_chunk) =>
        /\ pc # "map"
        /\ Len(calls) <= 1
        /\ \A k \in 1..Len(calls) :
              calls[k].fn = "combine" /\ calls[k].chunk_summaries = <<text>>
        /\ pc \in {"write", "raised"} => Len(calls) = 1
        /\ pc = "write" => calls[1].ok /\ summary = calls[1].ret
        /\ pc = "raised" => ~calls[1].ok /\ exc = "APIError"

C5_Witness ==
    /\ pc = "write"
    /\ Len(text) = max_chars_per_chunk
    /\ Len(text) > 1
    /\ Len(calls) = 1
    /\ calls[1].chunk_summaries = <<text>>

\* C6: a document of n > 1 chunks with no failing request calls the Chunk
\* Summarizer once per chunk, one call at a time in document order, then the
\* Combiner once, on the n summaries in chunk order; the Combiner's output is
\* what the pipeline returns.
C6_MapThenReduceInOrder ==
    (pc \in {"map", "write", "raised"} /\ Len(chunks) > 1) =>
        LET n == Len(chunks) IN
        /\ Len(calls) <= n + 1
        /\ \A k \in 1..Len(calls) :
              IF k <= n
              THEN calls[k].fn = "summarize" /\ calls[k].chunk = chunks[k]
              ELSE /\ calls[k].fn = "combine"
                   /\ calls[k].chunk_summaries = [i \in 1..n |-> calls[i].ret]
        /\ \A k \in 1..(Len(calls) - 1) : calls[k].ok
        /\ pc = "map" => /\ Len(chunk_summaries) = Len(calls)
                         /\ \A k \in 1..Len(calls) : calls[k].ok
        /\ pc = "write" => /\ Len(calls) = n + 1
                           /\ calls[n + 1].ok
                           /\ summary = calls[n + 1].ret

C6_Witness ==
    /\ pc = "write"
    /\ Len(chunks) >= 3
    /\ Len(calls) = Len(chunks) + 1
    /\ calls[1].ret # calls[2].ret

\* a text with no character other than spaces and newlines
IsBlank(t) == \A i \in 1..Len(t) : IsSpace(t[i])

\* C7: when the extracted text is empty the run fails with the empty-document
\* error before the chunker runs and before any generation request; the error
\* reaches the caller, which reports it and goes on to the next file (no
\* retry).
C7_InRun ==
    /\ pc \in {"chunk_entry", "chunk_loop", "chunked", "map", "write"} => ~IsBlank(text)
    /\ (pc = "raised" /\ IsBlank(text)) =>
          /\ exc = "ValueError"
          /\ calls = <<>>
          /\ chunks = <<>>
          /\ chunk_size = 0
    /\ (pc = "raised" /\ exc = "ValueError") => IsBlank(text)

C7_EmptyDocumentFailsFirst ==
    /\ []C7_InRun
    /\ [][(pc = "read" /\ IsBlank(text')) => (pc' = "raised" /\ exc' = "ValueError")]_vars
    /\ [][(pc = "raised" /\ exc = "ValueError") =>
            /\ pc' = "loop"
            /\ idx' = idx + 1
            /\ log' = Append(log, Entry(CurrentFile, "error", "ValueError"))
            /\ outputs' = outputs]_vars

C7_Witness ==
    /\ pc = "raised"
    /\ exc = "ValueError"
    /\ IsBlank(text)
    /\ calls = <<>>

\* the output file of a name is what the batch found
Untouched(name) ==
    /\ name \in DOMAIN outputs <=> name \in DOMAIN existing
    /\ name \in DOMAIN outputs => outputs[name] = existing[name]

\* a chunk's summarize_chunk call has failed
ChunkCallFailed ==
    /\ pc \in {"map", "write", "raised"}
    /\ Len(chunks) > 1
    /\ \E k \in 1..Len(calls) : calls[k].fn = "summarize" /\ ~calls[k].ok

\* C8: in a multi-chunk document, a failed chunk request fails the whole run:
\* the failed call is the last request of the run (no retry, no later chunk,
\* no Combiner call), and the batch writes nothing for the document: its
\* output file stays absent, or as it was before the run.
C8_InRun ==
    /\ ChunkCallFailed =>
          /\ pc = "raised"
          /\ exc = "APIError"
          /\ ~Last(calls).ok
          /\ \A k \in 1..Len(calls) :
                /\ calls[k].fn = "summarize"
                /\ calls[k].chunk = chunks[k]
                /\ (k < Len(calls) => calls[k].ok)
          /\ Untouched(CurrentFile)
    /\ \A k \in 1..Len(log) : log[k].status = "error" => Untouched(log[k].file)

C8_FailedChunkFailsDocument ==
    /\ []C8_InRun
    /\ [][ChunkCallFailed =>
            /\ pc' = "loop"
            /\ log' = Append(log, Entry(CurrentFile, "error", "APIError"))
            /\ outputs' = outputs]_vars

C8_Witness ==
    /\ ChunkCallFailed
    /\ pc = "raised"
    /\ Len(chunks) >= 3
    /\ Len(calls) = 2
    /\ CurrentFile \in DOMAIN existing

\* C9: in a batch, a failed document aborts only itself: the loop goes on to
\* the next file, the finished batch has reported every file once in sorted
\* order, and each saved document has its own summary file, header and
\* summary, whatever happened to the documents before it.
C9_InBatch ==
    /\ pc \notin {"start", "exit"} =>
          /\ Len(log) = idx - 1
          /\ \A k \in 1..Len(log) : log[k].file = pdf_files[k]
    /\ pc = "done" => Len(log) = Len(pdf_files)
    /\ \A k \in 1..Len(log) :
          log[k].status = "saved" =>
              /\ log[k].file \in DOMAIN outputs
              /\ \E a \in Answers : outputs[log[k].file] = FileText(log[k].file, Strip(a))

C9_FailureAbortsOnlyItsDocument ==
    /\ []C9_InBatch
    /\ [][pc = "raised" => (pc' = "loop" /\ idx' = idx + 1)]_vars
    /\ [][pc = "write" =>
            outputs' = Written(outputs, CurrentFile, FileText(CurrentFile, summary))]_vars

C9_Witness ==
    /\ pc = "done"
    /\ Len(log) >= 2
    /\ log[1].status = "error"
    /\ log[2].status = "saved"
    /\ 2 \in DOMAIN outputs

====
